---- MODULE Spec2Model ----
(***************************************************************************)
(* SecurityAnalyzer (graphistryChallenge.py): index construction from the  *)
(* activity and access logs, and the breadth-first compromise analysis.    *)
(* One action per basic block of analyze_compromise, so that every         *)
(* intermediate point of a run is a state of the model.                    *)
(***************************************************************************)
EXTENDS Naturals, Sequences, FiniteSets, TLC

\* ---------------------------------------------------------------- bounds
MaxActivityRows == 2
MaxAccessRows == 2
MaxCalls == 2

Users == {"U1", "U2", "U3"}
Computers == {"C1", "C2"}
ActivityTypes == {"login", "copy"}

None == "None"

VARIABLES
  activity_logs,      \* rows (user_id, computer_id)
  access_logs,        \* rows (computer_id, affected_user_id, activity_type)
  user_to_computers,
  computer_activities,
  computer_to_users,
  visited_users,
  visited_computers,
  affected_users,
  affected_computers,
  event_log,
  queue,
  current_user,
  user_computers,
  computer_pos,       \* position of "for computer in user_computers"
  computer,
  users_on_computer,
  user_pos,           \* position of "for user in users_on_computer"
  calls,              \* the initial_user argument of every call made so far
  pc,
  investigation_log_txt,  \* the text of investigation_log.txt
  analysis_summary_csv    \* the text of analysis_summary.csv

index == <<user_to_computers, computer_activities, computer_to_users>>
logs == <<activity_logs, access_logs>>
sets == <<visited_users, visited_computers, affected_users, affected_computers>>
locals == <<queue, current_user, user_computers, computer_pos, computer,
            users_on_computer, user_pos>>
files == <<investigation_log_txt, analysis_summary_csv>>
vars == <<logs, index, sets, event_log, locals, calls, pc, files>>

\* ---------------------------------------------------------------- helpers
Range(s) == {s[i] : i \in 1..Len(s)}

BoundedSeq(S, n) == UNION {[1..k -> S] : k \in 0..n}

ActivityRows == [user_id : Users, computer_id : Computers]
AccessRows == [computer_id : Computers, affected_user_id : Users,
               activity_type : ActivityTypes]

\* defaultdict(list): a mapping whose key set is the keys appended to so far
EmptyDict == [k \in {} |-> <<>>]

\* mutant: a value already in the list is not appended again
DictAppend_Dedup(d, k, v) ==
  IF k \in DOMAIN d
  THEN (IF \E i \in 1..Len(d[k]) : d[k][i] = v THEN d ELSE [d EXCEPT ![k] = Append(@, v)])
  ELSE [x \in (DOMAIN d) \cup {k} |-> IF x = k THEN <<v>> ELSE d[x]]

\* d[k].append(v) on a defaultdict(list)
DictAppend(d, k, v) ==
  IF k \in DOMAIN d THEN [d EXCEPT ![k] = Append(@, v)]
  ELSE [x \in (DOMAIN d) \cup {k} |-> IF x = k THEN <<v>> ELSE d[x]]

\* d.get(k, [])
GetOrEmpty(d, k) == IF k \in DOMAIN d THEN d[k] ELSE <<>>

\* for _, row in self.activity_logs.iterrows(): ...append(row['computer_id'])
RECURSIVE BuildUserToComputers(_)
BuildUserToComputers(rows) ==
  IF rows = <<>> THEN EmptyDict
  ELSE LET n == Len(rows) IN
       DictAppend(BuildUserToComputers(SubSeq(rows, 1, n - 1)),
                  rows[n].user_id, rows[n].computer_id)

RECURSIVE BuildComputerActivities(_)
BuildComputerActivities(rows) ==
  IF rows = <<>> THEN EmptyDict
  ELSE LET n == Len(rows) IN
       DictAppend(BuildComputerActivities(SubSeq(rows, 1, n - 1)),
                  rows[n].computer_id,
                  <<rows[n].affected_user_id, rows[n].activity_type>>)

RECURSIVE BuildComputerToUsers(_)
BuildComputerToUsers(rows) ==
  IF rows = <<>> THEN EmptyDict
  ELSE LET n == Len(rows) IN
       DictAppend(BuildComputerToUsers(SubSeq(rows, 1, n - 1)),
                  rows[n].computer_id, rows[n].affected_user_id)

\* ---------------------------------------------------------------- log lines
StartLine(u) == "Analysis started with suspicious user " \o u
ProcessingLine(u) == "Processing user: " \o u
AccessedLine(u, c) == "User " \o u \o " accessed computer " \o c
HeaderLine(c) == "Activities on computer " \o c \o ":"
\* mutant: the two fields of an activity line swapped
ActivityLine_Swapped(t, u) == "  - " \o u \o " by user " \o t

ActivityLine(t, u) == "  - " \o t \o " by user " \o u
AffectedLine(c, u) == "Computer " \o c \o " affected user " \o u

\* for (affected_user_id, activity_type) in ...: event_log.append(...)
ActivityLinesOf(acts) == [i \in 1..Len(acts) |-> ActivityLine(acts[i][2], acts[i][1])]

\* ---------------------------------------------------------------- actions
Init ==
  /\ activity_logs \in BoundedSeq(ActivityRows, MaxActivityRows)
  /\ access_logs \in BoundedSeq(AccessRows, MaxAccessRows)
  /\ user_to_computers = EmptyDict
  /\ computer_activities = EmptyDict
  /\ computer_to_users = EmptyDict
  /\ visited_users = {}
  /\ visited_computers = {}
  /\ affected_users = {}
  /\ affected_computers = {}
  /\ event_log = <<>>
  /\ queue = <<>>
  /\ current_user = None
  /\ user_computers = <<>>
  /\ computer_pos = 0
  /\ computer = None
  /\ users_on_computer = <<>>
  /\ user_pos = 0
  /\ calls = <<>>
  /\ pc = "new"
  /\ investigation_log_txt = None
  /\ analysis_summary_csv = None

\* SecurityAnalyzer.__init__
Construct ==
  /\ pc = "new"
  /\ user_to_computers' = BuildUserToComputers(activity_logs)
  /\ computer_activities' = BuildComputerActivities(access_logs)
  /\ computer_to_users' = BuildComputerToUsers(access_logs)
  /\ pc' = "ready"
  /\ UNCHANGED <<logs, files, sets, event_log, locals, calls>>

\* mutant: queue.pop(), the newest user first
Pop(q) == <<q[Len(q)], SubSeq(q, 1, Len(q) - 1)>>

\* queue.popleft(): the user taken and the queue left
PopLeft(q) == <<Head(q), Tail(q)>>

\* mutant: the visited test on computers is missing
ComputerUnvisited_NoGate(c) == TRUE

\* mutant: only computers that have access records count as new
ComputerUnvisited_WithAccessOnly(c) ==
  c \notin visited_computers /\ c \in DOMAIN computer_to_users

\* if computer not in self.visited_computers
ComputerUnvisited(c) == c \notin visited_computers

\* mutant: the visited test on users is missing
UserUnvisited_NoGate(u) == TRUE

\* if user not in self.visited_users
UserUnvisited(u) == u \notin visited_users

\* mutant: every user of the access log, whatever the computer
UsersOnAnyComputer(c) == [i \in 1..Len(access_logs) |-> access_logs[i].affected_user_id]

\* mutant: only the users with a login activity on the computer
UsersLoggedInOnComputer(c) ==
  LET acts == SelectSeq(GetOrEmpty(computer_activities, c), LAMBDA a : a[2] = "login")
  IN [i \in 1..Len(acts) |-> acts[i][1]]

\* users_on_computer = self.computer_to_users.get(computer, [])
UsersOnComputer(c) == GetOrEmpty(computer_to_users, c)

\* mutant: the seed is marked visited but not affected
Start_SeedNotAffected(initial_user) ==
  /\ pc = "ready"
  /\ Len(calls) < MaxCalls
  /\ queue' = <<initial_user>>
  /\ visited_users' = visited_users \cup {initial_user}
  /\ event_log' = Append(event_log, StartLine(initial_user))
  /\ calls' = Append(calls, initial_user)
  /\ pc' = "while"
  /\ UNCHANGED <<logs, files, index, visited_computers, affected_users, affected_computers,
                 current_user, user_computers, computer_pos, computer,
                 users_on_computer, user_pos>>

\* mutant: every call starts from empty sets and an empty log
Start_FreshContext(initial_user) ==
  /\ pc = "ready"
  /\ Len(calls) < MaxCalls
  /\ queue' = <<initial_user>>
  /\ visited_users' = {initial_user}
  /\ affected_users' = {initial_user}
  /\ visited_computers' = {}
  /\ affected_computers' = {}
  /\ event_log' = <<StartLine(initial_user)>>
  /\ calls' = Append(calls, initial_user)
  /\ pc' = "while"
  /\ UNCHANGED <<logs, files, index, current_user, user_computers, computer_pos,
                 computer, users_on_computer, user_pos>>

\* mutant: every call starts with empty visited sets
Start_ResetVisited(initial_user) ==
  /\ pc = "ready"
  /\ Len(calls) < MaxCalls
  /\ queue' = <<initial_user>>
  /\ visited_users' = {initial_user}
  /\ visited_computers' = {}
  /\ affected_users' = affected_users \cup {initial_user}
  /\ event_log' = Append(event_log, StartLine(initial_user))
  /\ calls' = Append(calls, initial_user)
  /\ pc' = "while"
  /\ UNCHANGED <<logs, files, index, affected_computers,
                 current_user, user_computers, computer_pos, computer,
                 users_on_computer, user_pos>>

\* mutant: a seed that is already visited is not analysed again
Start_SkipVisitedSeed(initial_user) ==
  /\ pc = "ready"
  /\ Len(calls) < MaxCalls
  /\ calls' = Append(calls, initial_user)
  /\ IF initial_user \in visited_users
     THEN UNCHANGED <<queue, visited_users, affected_users, event_log, pc>>
     ELSE /\ queue' = <<initial_user>>
          /\ visited_users' = visited_users \cup {initial_user}
          /\ affected_users' = affected_users \cup {initial_user}
          /\ event_log' = Append(event_log, StartLine(initial_user))
          /\ pc' = "while"
  /\ UNCHANGED <<logs, files, index, visited_computers, affected_computers,
                 current_user, user_computers, computer_pos, computer,
                 users_on_computer, user_pos>>

\* analyze_compromise(initial_user), up to the while loop
Start(initial_user) ==
  /\ pc = "ready"
  /\ Len(calls) < MaxCalls
  /\ queue' = <<initial_user>>
  /\ visited_users' = visited_users \cup {initial_user}
  /\ affected_users' = affected_users \cup {initial_user}
  /\ event_log' = Append(event_log, StartLine(initial_user))
  /\ calls' = Append(calls, initial_user)
  /\ pc' = "while"
  /\ UNCHANGED <<logs, files, index, visited_computers, affected_computers,
                 current_user, user_computers, computer_pos, computer,
                 users_on_computer, user_pos>>

\* mutant: the lookup is self.user_to_computers[current_user], which makes
\* a defaultdict insert the absent key
Dequeue_IndexingLookup ==
  /\ pc = "while"
  /\ queue # <<>>
  /\ current_user' = PopLeft(queue)[1]
  /\ queue' = PopLeft(queue)[2]
  /\ event_log' = Append(event_log, ProcessingLine(current_user'))
  /\ user_computers' = GetOrEmpty(user_to_computers, current_user')
  /\ user_to_computers' =
       [u \in (DOMAIN user_to_computers) \cup {current_user'} |->
          GetOrEmpty(user_to_computers, u)]
  /\ computer_pos' = 1
  /\ pc' = "for_computer"
  /\ UNCHANGED <<logs, files, computer_activities, computer_to_users, sets, computer,
                 users_on_computer, user_pos, calls>>

\* while queue: popleft, log, look the user's computers up
Dequeue ==
  /\ pc = "while"
  /\ queue # <<>>
  /\ current_user' = PopLeft(queue)[1]
  /\ queue' = PopLeft(queue)[2]
  /\ event_log' = Append(event_log, ProcessingLine(current_user'))
  /\ user_computers' = GetOrEmpty(user_to_computers, current_user')
  /\ computer_pos' = 1
  /\ pc' = "for_computer"
  /\ UNCHANGED <<logs, files, index, sets, computer, users_on_computer, user_pos, calls>>

\* while queue: the queue is empty, the call returns and its locals are gone
Return ==
  /\ pc = "while"
  /\ queue = <<>>
  /\ current_user' = None
  /\ user_computers' = <<>>
  /\ computer_pos' = 0
  /\ computer' = None
  /\ users_on_computer' = <<>>
  /\ user_pos' = 0
  /\ pc' = "ready"
  /\ UNCHANGED <<logs, files, index, sets, event_log, queue, calls>>

\* mutant: a new computer is marked visited but not affected
VisitComputer_NotAffected ==
  /\ pc = "for_computer"
  /\ computer_pos <= Len(user_computers)
  /\ ComputerUnvisited(user_computers[computer_pos])
  /\ computer' = user_computers[computer_pos]
  /\ visited_computers' = visited_computers \cup {computer'}
  /\ event_log' = event_log
                  \o <<AccessedLine(current_user, computer'), HeaderLine(computer')>>
                  \o ActivityLinesOf(GetOrEmpty(computer_activities, computer'))
  /\ users_on_computer' = UsersOnComputer(computer')
  /\ user_pos' = 1
  /\ pc' = "for_user"
  /\ UNCHANGED <<logs, files, index, visited_users, affected_users, affected_computers, queue,
                 current_user, user_computers, computer_pos, calls>>

\* for computer in user_computers: a computer not visited yet
VisitComputer ==
  /\ pc = "for_computer"
  /\ computer_pos <= Len(user_computers)
  /\ ComputerUnvisited(user_computers[computer_pos])
  /\ computer' = user_computers[computer_pos]
  /\ visited_computers' = visited_computers \cup {computer'}
  /\ affected_computers' = affected_computers \cup {computer'}
  /\ event_log' = event_log
                  \o <<AccessedLine(current_user, computer'), HeaderLine(computer')>>
                  \o ActivityLinesOf(GetOrEmpty(computer_activities, computer'))
  /\ users_on_computer' = UsersOnComputer(computer')
  /\ user_pos' = 1
  /\ pc' = "for_user"
  /\ UNCHANGED <<logs, files, index, visited_users, affected_users, queue,
                 current_user, user_computers, computer_pos, calls>>

\* mutant: a skipped computer does not advance the iteration
SkipComputer_NoAdvance ==
  /\ pc = "for_computer"
  /\ computer_pos <= Len(user_computers)
  /\ ~ComputerUnvisited(user_computers[computer_pos])
  /\ computer' = user_computers[computer_pos]
  /\ UNCHANGED <<logs, files, index, sets, event_log, queue, current_user,
                 user_computers, computer_pos, users_on_computer, user_pos,
                 calls, pc>>

\* for computer in user_computers: a computer already visited is skipped
SkipComputer ==
  /\ pc = "for_computer"
  /\ computer_pos <= Len(user_computers)
  /\ ~ComputerUnvisited(user_computers[computer_pos])
  /\ computer' = user_computers[computer_pos]
  /\ computer_pos' = computer_pos + 1
  /\ UNCHANGED <<logs, files, index, sets, event_log, queue, current_user,
                 user_computers, users_on_computer, user_pos, calls, pc>>

\* for computer in user_computers: exhausted, back to the while test
EndComputers ==
  /\ pc = "for_computer"
  /\ computer_pos > Len(user_computers)
  /\ pc' = "while"
  /\ UNCHANGED <<logs, files, index, sets, event_log, locals, calls>>

\* mutant: a newly affected user is not enqueued
AffectUser_NoEnqueue ==
  /\ pc = "for_user"
  /\ user_pos <= Len(users_on_computer)
  /\ UserUnvisited(users_on_computer[user_pos])
  /\ LET user == users_on_computer[user_pos] IN
       /\ affected_users' = affected_users \cup {user}
       /\ visited_users' = visited_users \cup {user}
       /\ event_log' = Append(event_log, AffectedLine(computer, user))
  /\ user_pos' = user_pos + 1
  /\ UNCHANGED <<logs, files, index, visited_computers, affected_computers, queue,
                 current_user, user_computers, computer_pos, computer,
                 users_on_computer, calls, pc>>

\* mutant: a newly affected user is not marked visited
AffectUser_NotMarkedVisited ==
  /\ pc = "for_user"
  /\ user_pos <= Len(users_on_computer)
  /\ UserUnvisited(users_on_computer[user_pos])
  /\ LET user == users_on_computer[user_pos] IN
       /\ affected_users' = affected_users \cup {user}
       /\ queue' = Append(queue, user)
       /\ event_log' = Append(event_log, AffectedLine(computer, user))
  /\ user_pos' = user_pos + 1
  /\ UNCHANGED <<logs, files, index, visited_users, visited_computers, affected_computers,
                 current_user, user_computers, computer_pos, computer,
                 users_on_computer, calls, pc>>

\* for user in users_on_computer: a user not visited yet
AffectUser ==
  /\ pc = "for_user"
  /\ user_pos <= Len(users_on_computer)
  /\ UserUnvisited(users_on_computer[user_pos])
  /\ LET user == users_on_computer[user_pos] IN
       /\ affected_users' = affected_users \cup {user}
       /\ visited_users' = visited_users \cup {user}
       /\ queue' = Append(queue, user)
       /\ event_log' = Append(event_log, AffectedLine(computer, user))
  /\ user_pos' = user_pos + 1
  /\ UNCHANGED <<logs, files, index, visited_computers, affected_computers,
                 current_user, user_computers, computer_pos, computer,
                 users_on_computer, calls, pc>>

\* for user in users_on_computer: a user already visited
SkipUser ==
  /\ pc = "for_user"
  /\ user_pos <= Len(users_on_computer)
  /\ ~UserUnvisited(users_on_computer[user_pos])
  /\ user_pos' = user_pos + 1
  /\ UNCHANGED <<logs, files, index, sets, event_log, queue, current_user,
                 user_computers, computer_pos, computer, users_on_computer,
                 calls, pc>>

\* for user in users_on_computer: exhausted, next computer
EndUsers ==
  /\ pc = "for_user"
  /\ user_pos > Len(users_on_computer)
  /\ computer_pos' = computer_pos + 1
  /\ pc' = "for_computer"
  /\ UNCHANGED <<logs, files, index, sets, event_log, queue, current_user,
                 user_computers, computer, users_on_computer, user_pos, calls>>

\* "\n".join(lines)
RECURSIVE JoinLines(_)
JoinLines(lines) ==
  IF lines = <<>> THEN ""
  ELSE IF Len(lines) = 1 THEN lines[1]
  ELSE lines[1] \o "\n" \o JoinLines(Tail(lines))

\* pd.DataFrame(summary_data).to_csv(index=False)
SummaryCsv(users, computers) ==
  "Metric,Value\n"
  \o "Total Affected Users," \o ToString(users) \o "\n"
  \o "Total Affected Computers," \o ToString(computers) \o "\n"

\* mutant: the log is emptied once it has been written
SaveOutputs_FlushesLog ==
  /\ pc = "ready"
  /\ investigation_log_txt' = JoinLines(event_log)
  /\ analysis_summary_csv' =
       SummaryCsv(Cardinality(affected_users), Cardinality(affected_computers))
  /\ event_log' = <<>>
  /\ UNCHANGED <<logs, index, sets, locals, calls, pc>>

\* save_outputs
SaveOutputs ==
  /\ pc = "ready"
  /\ investigation_log_txt' = JoinLines(event_log)
  /\ analysis_summary_csv' =
       SummaryCsv(Cardinality(affected_users), Cardinality(affected_computers))
  /\ UNCHANGED <<logs, index, sets, event_log, locals, calls, pc>>

\* the steps of a running analyze_compromise call
Step ==
  \/ Dequeue
  \/ Return
  \/ VisitComputer
  \/ SkipComputer
  \/ EndComputers
  \/ AffectUser
  \/ SkipUser
  \/ EndUsers

Call == \E initial_user \in Users : Start(initial_user)

Next ==
  \/ Construct
  \/ Call
  \/ Step

Spec == Init /\ [][Next]_vars

\* a call that has started runs to completion: single-threaded, synchronous
FairSpec == Spec /\ WF_vars(Step)

\* the engine with its result sink: save_outputs may be called on the
\* constructed engine whenever no call is running
SinkNext ==
  \/ Next
  \/ SaveOutputs

SinkSpec == Init /\ [][SinkNext]_vars

\* ---------------------------------------------------------------- vocabulary of the claims
\* the first call on a freshly constructed engine: running, or returned
FirstCall == Len(calls) = 1
FirstCallReturned == pc = "ready" /\ Len(calls) = 1
Seed == calls[1]

\* the edges of the bipartite graph, read off the index itself
UserHasComputer(u, c) ==
  u \in DOMAIN user_to_computers /\ \E i \in 1..Len(user_to_computers[u]) : user_to_computers[u][i] = c
ComputerHasUser(c, u) ==
  c \in DOMAIN computer_to_users /\ \E i \in 1..Len(computer_to_users[c]) : computer_to_users[c][i] = u

\* one user -> computer -> user hop from the users of S
Hop(S) == {u \in Users : \E v \in S, c \in Computers : UserHasComputer(v, c) /\ ComputerHasUser(c, u)}

\* least fixed point of S |-> S \cup Hop(S) above S
RECURSIVE Closure(_)
Closure(S) == IF Hop(S) \subseteq S THEN S ELSE Closure(S \cup Hop(S))

Reach(seed) == Closure({seed})

\* C1: when the first call on a fresh engine has returned, affected_users is
\* exactly the set of users reachable from the seed by user -> computer -> user
\* hops, computed as a least fixed point over the index.
C1_ReachabilityEquivalence ==
  FirstCallReturned => affected_users = Reach(Seed)

\* C1 witness: a returned first call that reached a user two hops away.
C1_Witness ==
  /\ FirstCallReturned
  /\ affected_users = Reach(Seed)
  /\ \E u \in affected_users : u \notin Hop({Seed}) \cup {Seed}
  /\ access_logs # <<>>

\* C2: when the first call on a fresh engine has returned, affected_computers
\* is exactly the union of the computers listed in UserToComputers for the
\* affected users.
C2_AffectedComputers ==
  FirstCallReturned =>
    affected_computers = {c \in Computers : \E u \in affected_users : UserHasComputer(u, c)}

\* C2 witness: a returned first call with an affected computer, while another
\* computer that has access records (so is linked by a computer -> user edge to
\* an affected user) stays outside.
C2_Witness ==
  /\ FirstCallReturned
  /\ affected_computers # {}
  /\ \E c \in Computers \ affected_computers :
       \E u \in affected_users : ComputerHasUser(c, u)

\* ---------------------------------------------------------------- reading the log
Count(log, lines) == Cardinality({i \in 1..Len(log) : log[i] \in lines})

StartLines == {StartLine(u) : u \in Users}
ProcessingLines == {ProcessingLine(u) : u \in Users}
AccessedLines == {AccessedLine(u, c) : u \in Users, c \in Computers}
AccessedLinesOf(c) == {AccessedLine(u, c) : u \in Users}
HeaderLines == {HeaderLine(c) : c \in Computers}
ActivityLines == {ActivityLine(t, u) : t \in ActivityTypes, u \in Users}
AffectedLines == {AffectedLine(c, u) : c \in Computers, u \in Users}
AffectedLinesBy(c) == {AffectedLine(c, u) : u \in Users}
AffectedLinesFor(u) == {AffectedLine(c, u) : c \in Computers}

Running == pc \in {"while", "for_computer", "for_user"}

\* C3: on every index of the model (cycles, self-referencing access records
\* and duplicated rows included) a call that has started reaches the empty
\* queue and returns, and no user is expanded more than once per call.
C3_Termination ==
  /\ Running ~> (pc = "ready")
  /\ [](\A u \in Users : Count(event_log, {ProcessingLine(u)}) <= Len(calls))

\* C3 witness: a returned call on an index with a duplicated activity row and
\* a visited computer that lists the very user who reached it.
C3_Witness ==
  /\ pc = "ready"
  /\ Len(calls) = 1
  /\ Len(activity_logs) = 2
  /\ activity_logs[1] = activity_logs[2]
  /\ \E c \in visited_computers :
       UserHasComputer(Seed, c) /\ ComputerHasUser(c, Seed)

\* the access rows of one computer, in input order
AccessRowsOf(c) == SelectSeq(access_logs, LAMBDA r : r.computer_id = c)

\* the users named by rows that are not known yet, each once, in row order
RECURSIVE NewUsers(_, _)
NewUsers(rows, known) ==
  IF rows = <<>> THEN <<>>
  ELSE LET u == Head(rows).affected_user_id IN
       IF u \in known THEN NewUsers(Tail(rows), known)
       ELSE <<u>> \o NewUsers(Tail(rows), known \cup {u})

\* the users the first i lines of the log have marked
MarkedBy(i) ==
  {u \in Users : \E k \in 1..i : event_log[k] \in {StartLine(u)} \cup AffectedLinesFor(u)}

\* the block a newly visited computer c, reached by u at line i, must produce
ExpectedBlock(u, c, i) ==
  LET rows == AccessRowsOf(c)
      new == NewUsers(rows, MarkedBy(i))
  IN <<AccessedLine(u, c), HeaderLine(c)>>
     \o [k \in 1..Len(rows) |-> ActivityLine(rows[k].activity_type, rows[k].affected_user_id)]
     \o [k \in 1..Len(new) |-> AffectedLine(c, new[k])]

ScenarioActivity == <<[user_id |-> "U1", computer_id |-> "C1"]>>
ScenarioAccess ==
  <<[computer_id |-> "C1", affected_user_id |-> "U2", activity_type |-> "login"],
    [computer_id |-> "C1", affected_user_id |-> "U3", activity_type |-> "copy"]>>
ScenarioTrace ==
  <<"Analysis started with suspicious user U1",
    "Processing user: U1",
    "User U1 accessed computer C1",
    "Activities on computer C1:",
    "  - login by user U2",
    "  - copy by user U3",
    "Computer C1 affected user U2",
    "Computer C1 affected user U3",
    "Processing user: U2",
    "Processing user: U3">>
Scenario ==
  /\ activity_logs = ScenarioActivity
  /\ access_logs = ScenarioAccess
  /\ FirstCallReturned
  /\ Seed = "U1"

\* C4: the concrete scenario yields AffectedUsers {U1,U2,U3}, AffectedComputers
\* {C1} and exactly the ten-line trace; and in every returned first call each
\* 'accessed' line opens one contiguous block - header, the computer's
\* activity lines in record order, then the newly affected users in record
\* order - which is followed by the end of the log, by the next computer's
\* 'accessed' line or by the next 'Processing' line.
C4_ConcreteScenario ==
  /\ Scenario =>
       /\ affected_users = {"U1", "U2", "U3"}
       /\ affected_computers = {"C1"}
       /\ event_log = ScenarioTrace
  /\ FirstCallReturned =>
       \A i \in 1..Len(event_log) : \A u \in Users, c \in Computers :
         event_log[i] = AccessedLine(u, c) =>
           LET block == ExpectedBlock(u, c, i)
               next == i + Len(block)
           IN /\ next - 1 <= Len(event_log)
              /\ SubSeq(event_log, i, next - 1) = block
              /\ next <= Len(event_log) =>
                   event_log[next] \in ProcessingLines \cup AccessedLines

\* C4 witness: the scenario has run to completion.
C4_Witness == Scenario /\ Len(event_log) = 10

\* C5: a seed without UserToComputers entries gives, at every point of the
\* first call, AffectedUsers = {seed} and AffectedComputers = {}, never enters
\* a computer's block, and returns with exactly the start line and the
\* processing line in the log.
C5_NoEdgeSeed ==
  (FirstCall /\ Seed \notin DOMAIN user_to_computers) =>
    /\ affected_users = {Seed}
    /\ affected_computers = {}
    /\ pc \in {"while", "for_computer", "ready"}
    /\ pc = "ready" =>
         event_log = <<"Analysis started with suspicious user " \o Seed,
                       "Processing user: " \o Seed>>

\* C5 witness: a returned first call whose seed appears in no record at all,
\* on logs that are not empty.
C5_Witness ==
  /\ FirstCallReturned
  /\ Len(activity_logs) > 0
  /\ Len(access_logs) > 0
  /\ \A i \in 1..Len(activity_logs) : activity_logs[i].user_id # Seed
  /\ \A i \in 1..Len(access_logs) : access_logs[i].affected_user_id # Seed

\* a part of the records closed under both kinds of edge: no record links a
\* user or computer inside it with one outside it
ClosedPart(BU, BC) ==
  /\ \A i \in 1..Len(activity_logs) :
       activity_logs[i].user_id \in BU <=> activity_logs[i].computer_id \in BC
  /\ \A i \in 1..Len(access_logs) :
       access_logs[i].computer_id \in BC <=> access_logs[i].affected_user_id \in BU

\* C6: if the records split into two parts that share no user and no
\* computer, then at every point of a first call seeded in one part, no set,
\* no queue entry and no loop variable holds a user or computer of the other.
C6_ComponentIsolation ==
  FirstCall =>
    \A BU \in SUBSET Users, BC \in SUBSET Computers :
      (ClosedPart(BU, BC) /\ Seed \notin BU) =>
        /\ (affected_users \cup visited_users \cup Range(queue) \cup {current_user}) \cap BU = {}
        /\ (affected_computers \cup visited_computers \cup {computer}) \cap BC = {}

\* C6 witness: a returned first call that spread over its own part (a computer
\* and a second user) while another part has an activity and an access record.
C6_Witness ==
  /\ FirstCallReturned
  /\ affected_computers # {}
  /\ Cardinality(affected_users) >= 2
  /\ \E BU \in SUBSET Users, BC \in SUBSET Computers :
       /\ ClosedPart(BU, BC)
       /\ Seed \notin BU
       /\ \E i \in 1..Len(activity_logs) : activity_logs[i].user_id \in BU
       /\ \E i \in 1..Len(access_logs) : access_logs[i].computer_id \in BC

\* the next computer of the iteration is one already visited
AtVisitedComputer ==
  /\ pc = "for_computer"
  /\ computer_pos <= Len(user_computers)
  /\ user_computers[computer_pos] \in visited_computers

\* every 'affected user' line of c lies in the block opened by c's 'accessed' line
InOwnBlock(c) ==
  \A i \in 1..Len(event_log) :
    event_log[i] \in AffectedLinesBy(c) =>
      \E j \in 1..(i - 1) :
        /\ event_log[j] \in AccessedLinesOf(c)
        /\ event_log[j + 1] = HeaderLine(c)
        /\ \A k \in (j + 2)..(i - 1) : event_log[k] \in ActivityLines \cup AffectedLinesBy(c)

\* the number of access rows of the computers of S
RECURSIVE NumAccessRows(_)
NumAccessRows(S) ==
  IF S = {} THEN 0
  ELSE LET c == CHOOSE y \in S : TRUE IN Len(AccessRowsOf(c)) + NumAccessRows(S \ {c})

\* C7: for every computer the log holds at most one 'accessed' line, at most
\* one header and one block (its 'affected user' lines all lie in the block its
\* 'accessed' line opens, and the activity lines of the log number exactly the
\* access rows of the visited computers); and the step taken at an already
\* visited computer changes neither the log, nor a set, nor the queue.
C7_RevisitSuppression ==
  /\ [](\A c \in Computers :
          /\ Count(event_log, AccessedLinesOf(c)) <= 1
          /\ Count(event_log, {HeaderLine(c)}) <= 1
          /\ InOwnBlock(c))
  /\ [](Count(event_log, ActivityLines) = NumAccessRows(visited_computers))
  /\ [][AtVisitedComputer =>
          /\ event_log' = event_log
          /\ queue' = queue
          /\ UNCHANGED sets]_vars

\* C7 witness: a returned first call in which a visited computer is listed at
\* two or more places of the affected users' UserToComputers sequences and has
\* one 'accessed' line.
C7_Witness ==
  /\ FirstCallReturned
  /\ \E c \in visited_computers :
       /\ Count(event_log, AccessedLinesOf(c)) = 1
       /\ Cardinality({<<u, i>> \in affected_users \X (1..MaxActivityRows) :
                         /\ u \in DOMAIN user_to_computers
                         /\ i <= Len(user_to_computers[u])
                         /\ user_to_computers[u][i] = c}) >= 2

IsPrefix(s, t) == Len(s) <= Len(t) /\ SubSeq(t, 1, Len(s)) = s

\* the users of the 'Processing user' lines, in log order
ProcessedOrder ==
  LET ls == SelectSeq(event_log, LAMBDA l : l \in ProcessingLines)
  IN [i \in 1..Len(ls) |-> CHOOSE u \in Users : ls[i] = ProcessingLine(u)]

\* the users in the order the log records their discovery: the seed's start
\* line, then the 'affected user' lines
DiscoveredOrder ==
  LET ls == SelectSeq(event_log, LAMBDA l : l \in StartLines \cup AffectedLines)
  IN [i \in 1..Len(ls) |-> CHOOSE u \in Users : ls[i] \in {StartLine(u)} \cup AffectedLinesFor(u)]

\* the users within n hops of the seed
RECURSIVE Ball(_, _)
Ball(seed, n) ==
  IF n = 0 THEN {seed}
  ELSE LET B == Ball(seed, n - 1) IN B \cup Hop(B)

\* breadth-first hop distance of a reachable user from the seed
HopDistance(seed, u) ==
  CHOOSE n \in 0..Cardinality(Users) :
    u \in Ball(seed, n) /\ (n > 0 => u \notin Ball(seed, n - 1))

\* C8: at every point of a first call the users processed so far, followed by
\* the queue, are exactly the users discovered so far in discovery order (so
\* at return the two orders are equal), and hop distance from the seed never
\* decreases along the processing order.
C8_FifoByDiscovery ==
  FirstCall =>
    /\ ProcessedOrder \o queue = DiscoveredOrder
    /\ pc = "ready" => ProcessedOrder = DiscoveredOrder
    /\ \A i, j \in 1..Len(ProcessedOrder) :
         i < j => HopDistance(Seed, ProcessedOrder[i]) <= HopDistance(Seed, ProcessedOrder[j])

\* C8 witness: a returned first call that discovered two users through one
\* computer and processed all three users.
C8_Witness ==
  /\ FirstCallReturned
  /\ Len(ProcessedOrder) = 3
  /\ HopDistance(Seed, ProcessedOrder[2]) = 1
  /\ HopDistance(Seed, ProcessedOrder[3]) = 1

\* a second witness of C8's layering: a chain, the third user two hops away
C8_WitnessChain ==
  /\ FirstCallReturned
  /\ Len(ProcessedOrder) = 3
  /\ HopDistance(Seed, ProcessedOrder[3]) = 2

\* C9: no step of any call, first or later, removes an element from
\* visited_users, visited_computers, affected_users or affected_computers, and
\* the log before a step is a prefix of the log after it.
C9_Monotonicity ==
  [][/\ visited_users \subseteq visited_users'
     /\ visited_computers \subseteq visited_computers'
     /\ affected_users \subseteq affected_users'
     /\ affected_computers \subseteq affected_computers'
     /\ IsPrefix(event_log, event_log')]_vars

\* C9 witness: a second call has returned after adding users and computers the
\* first call had not reached.
C9_Witness ==
  /\ pc = "ready"
  /\ Len(calls) = 2
  /\ affected_users # Reach(Seed)
  /\ \E c \in affected_computers : \A u \in Reach(Seed) : ~UserHasComputer(u, c)

\* C10: when the first call has returned, |affected_computers| is the number
\* of 'accessed computer' lines, |affected_users| is the number of start lines
\* (one) plus the number of 'affected user' lines, and no two of these lines
\* name the same computer, respectively the same user.
C10_SizesEqualMarkEvents ==
  FirstCallReturned =>
    /\ Cardinality(affected_computers) = Count(event_log, AccessedLines)
    /\ Count(event_log, StartLines) = 1
    /\ Cardinality(affected_users) =
         Count(event_log, StartLines) + Count(event_log, AffectedLines)
    /\ \A c \in Computers : Count(event_log, AccessedLinesOf(c)) <= 1
    /\ \A u \in Users : Count(event_log, {StartLine(u)} \cup AffectedLinesFor(u)) <= 1

\* C10 witness: a returned first call with three affected users and two
\* affected computers.
C10_Witness ==
  /\ FirstCallReturned
  /\ Cardinality(affected_users) = 3
  /\ Cardinality(affected_computers) = 2

\* ---------------------------------------------------------------- a whole call as a function
\* the engine's sets and log, as one value
EngineState ==
  [visited_users |-> visited_users, visited_computers |-> visited_computers,
   affected_users |-> affected_users, affected_computers |-> affected_computers,
   event_log |-> event_log]

\* the engine right after __init__
FreshEngine ==
  [visited_users |-> {}, visited_computers |-> {},
   affected_users |-> {}, affected_computers |-> {}, event_log |-> <<>>]

\* the three mappings __init__ builds from the two logs
BuildIndex(activity, access) ==
  [user_to_computers |-> BuildUserToComputers(activity),
   computer_activities |-> BuildComputerActivities(access),
   computer_to_users |-> BuildComputerToUsers(access)]

\* for user in users_on_computer, from position i on: the engine and queue left
RECURSIVE ForUsers(_, _, _, _, _)
ForUsers(st, q, c, users, i) ==
  IF i > Len(users) THEN <<st, q>>
  ELSE LET user == users[i] IN
       IF user \notin st.visited_users
       THEN ForUsers([st EXCEPT !.affected_users = @ \cup {user},
                                !.visited_users = @ \cup {user},
                                !.event_log = Append(@, AffectedLine(c, user))],
                     Append(q, user), c, users, i + 1)
       ELSE ForUsers(st, q, c, users, i + 1)

\* for computer in user_computers, from position i on
RECURSIVE ForComputers(_, _, _, _, _, _)
ForComputers(ix, st, q, cur, comps, i) ==
  IF i > Len(comps) THEN <<st, q>>
  ELSE LET c == comps[i] IN
       IF c \notin st.visited_computers
       THEN LET st1 == [st EXCEPT !.visited_computers = @ \cup {c},
                                  !.affected_computers = @ \cup {c},
                                  !.event_log = @ \o <<AccessedLine(cur, c), HeaderLine(c)>>
                                                  \o ActivityLinesOf(GetOrEmpty(ix.computer_activities, c))]
                r == ForUsers(st1, q, c, GetOrEmpty(ix.computer_to_users, c), 1)
            IN ForComputers(ix, r[1], r[2], cur, comps, i + 1)
       ELSE ForComputers(ix, st, q, cur, comps, i + 1)

\* while queue: ...
RECURSIVE WhileQueue(_, _, _)
WhileQueue(ix, st, q) ==
  IF q = <<>> THEN st
  ELSE LET cur == Head(q)
           st1 == [st EXCEPT !.event_log = Append(@, ProcessingLine(cur))]
           r == ForComputers(ix, st1, Tail(q), cur, GetOrEmpty(ix.user_to_computers, cur), 1)
       IN WhileQueue(ix, r[1], r[2])

\* analyze_compromise(initial_user) on an engine st over the index ix: the engine at return
analyze_compromise(ix, st, initial_user) ==
  WhileQueue(ix,
             [st EXCEPT !.visited_users = @ \cup {initial_user},
                        !.affected_users = @ \cup {initial_user},
                        !.event_log = Append(@, StartLine(initial_user))],
             <<initial_user>>)

\* the engine after the first call alone, from the logs and the first seed
FirstRun == analyze_compromise(BuildIndex(activity_logs, access_logs), FreshEngine, calls[1])

SecondCall == Len(calls) = 2
SecondCallReturned == pc = "ready" /\ Len(calls) = 2

\* the lines the second call has appended so far
SecondCallLines == SubSeq(event_log, Len(FirstRun.event_log) + 1, Len(event_log))

\* C11: the first call leaves the engine exactly as one run from a fresh
\* engine does; at every point of a second call the four sets contain those
\* the first call left and the log is the first call's log followed by the
\* second call's lines (a start line first, nothing of it erased); a computer
\* the first call visited gets no line in the second call; and the second
\* call returns what one run started from the first call's engine returns.
C11_Reentrancy ==
  /\ FirstCallReturned => EngineState = FirstRun
  /\ SecondCall =>
       /\ FirstRun.visited_users \subseteq visited_users
       /\ FirstRun.visited_computers \subseteq visited_computers
       /\ FirstRun.affected_users \subseteq affected_users
       /\ FirstRun.affected_computers \subseteq affected_computers
       /\ IsPrefix(FirstRun.event_log, event_log)
       /\ SecondCallLines[1] = StartLine(calls[2])
       /\ \A c \in FirstRun.visited_computers :
            Count(SecondCallLines, AccessedLinesOf(c) \cup {HeaderLine(c)} \cup AffectedLinesBy(c)) = 0
  /\ SecondCallReturned =>
       EngineState = analyze_compromise(BuildIndex(activity_logs, access_logs), FirstRun, calls[2])

\* C11 witness: a second call, seeded with a user the first call had not
\* reached, has returned after skipping a computer the first call had visited.
C11_Witness ==
  /\ SecondCallReturned
  /\ calls[2] \notin FirstRun.visited_users
  /\ \E c \in FirstRun.visited_computers : UserHasComputer(calls[2], c)

\* ---------------------------------------------------------------- rows with missing values
MaxRawRows == 1

\* what pandas puts in a cell whose value is missing; an f-string prints it as nan
NaN == "nan"

\* rows as read_csv delivers them: any cell may be missing
RawActivityRows == [user_id : Users \cup {NaN}, computer_id : Computers \cup {NaN}]
RawAccessRows == [computer_id : Computers \cup {NaN}, affected_user_id : Users \cup {NaN},
                  activity_type : ActivityTypes \cup {NaN}]

\* the engine before __init__, on logs whose cells may be missing
RawInit ==
  /\ activity_logs \in BoundedSeq(RawActivityRows, MaxRawRows)
  /\ access_logs \in BoundedSeq(RawAccessRows, MaxRawRows)
  /\ user_to_computers = EmptyDict
  /\ computer_activities = EmptyDict
  /\ computer_to_users = EmptyDict
  /\ visited_users = {}
  /\ visited_computers = {}
  /\ affected_users = {}
  /\ affected_computers = {}
  /\ event_log = <<>>
  /\ queue = <<>>
  /\ current_user = None
  /\ user_computers = <<>>
  /\ computer_pos = 0
  /\ computer = None
  /\ users_on_computer = <<>>
  /\ user_pos = 0
  /\ calls = <<>>
  /\ pc = "new"
  /\ investigation_log_txt = None
  /\ analysis_summary_csv = None

RawSpec == RawInit /\ [][Next]_vars

\* some row of the logs lacks a required field
HasMalformedRow ==
  \/ \E i \in 1..Len(activity_logs) :
       NaN \in {activity_logs[i].user_id, activity_logs[i].computer_id}
  \/ \E i \in 1..Len(access_logs) :
       NaN \in {access_logs[i].computer_id, access_logs[i].affected_user_id,
                access_logs[i].activity_type}

\* the missing value is a key or an entry of a mapping
NaNInIndex ==
  \/ NaN \in DOMAIN user_to_computers \cup DOMAIN computer_to_users \cup DOMAIN computer_activities
  \/ \E k \in DOMAIN user_to_computers : NaN \in Range(user_to_computers[k])
  \/ \E k \in DOMAIN computer_to_users : NaN \in Range(computer_to_users[k])
  \/ \E k \in DOMAIN computer_activities :
       \E j \in 1..Len(computer_activities[k]) : NaN \in Range(computer_activities[k][j])

\* C12: when some row lacks a required field, construction fails as a whole:
\* the engine never becomes usable (no index, no call ever starts) and the
\* missing value is never inserted into a mapping.
C12_MalformedRecordRejected ==
  HasMalformedRow =>
    /\ pc = "new"
    /\ index = <<EmptyDict, EmptyDict, EmptyDict>>
    /\ ~NaNInIndex
    /\ calls = <<>>

\* the activity rows of one user, in input order
ActivityRowsOf(u) == SelectSeq(activity_logs, LAMBDA r : r.user_id = u)

\* C13: once built, UserToComputers has exactly the users of the activity
\* rows as keys and maps each to the computer_ids of its rows, in input order
\* with repeats; ComputerToUsers and ComputerActivities have exactly the
\* computers of the access rows as keys and map each to the affected users,
\* respectively the (affected user, activity type) pairs, of its rows, in
\* input order with repeats - so they have equal length and name the same
\* user at every position.
C13_IndexStable ==
  pc # "new" =>
    /\ DOMAIN user_to_computers = {activity_logs[i].user_id : i \in 1..Len(activity_logs)}
    /\ \A u \in DOMAIN user_to_computers :
         LET rows == ActivityRowsOf(u) IN
           user_to_computers[u] = [k \in 1..Len(rows) |-> rows[k].computer_id]
    /\ DOMAIN computer_to_users = {access_logs[i].computer_id : i \in 1..Len(access_logs)}
    /\ DOMAIN computer_activities = DOMAIN computer_to_users
    /\ \A c \in DOMAIN computer_to_users :
         LET rows == AccessRowsOf(c) IN
           /\ computer_to_users[c] = [k \in 1..Len(rows) |-> rows[k].affected_user_id]
           /\ computer_activities[c] =
                [k \in 1..Len(rows) |-> <<rows[k].affected_user_id, rows[k].activity_type>>]
           /\ Len(computer_activities[c]) = Len(computer_to_users[c])
           /\ \A k \in 1..Len(rows) : computer_activities[c][k][1] = computer_to_users[c][k]

\* C13 witness: an index built from a repeated activity row and a repeated
\* access row, both repeats kept.
C13_Witness ==
  /\ pc = "ready"
  /\ \E u \in DOMAIN user_to_computers :
       Len(user_to_computers[u]) = 2 /\ user_to_computers[u][1] = user_to_computers[u][2]
  /\ \E c \in DOMAIN computer_activities :
       Len(computer_activities[c]) = 2 /\ computer_activities[c][1] = computer_activities[c][2]

\* C14: whenever a traversal has ended, after the first call or a later one,
\* affected_users = visited_users and affected_computers = visited_computers.
C14_AffectedEqualsVisited ==
  (pc = "ready" /\ Len(calls) >= 1) =>
    /\ affected_users = visited_users
    /\ affected_computers = visited_computers

\* C14 witness: a second call has returned with several users and a computer
\* in the sets.
C14_Witness ==
  /\ SecondCallReturned
  /\ calls[1] # calls[2]
  /\ Cardinality(visited_users) = 3
  /\ visited_computers # {}

\* C15: after construction no step changes UserToComputers, ComputerToUsers
\* or ComputerActivities, neither a stored sequence nor the key set.
C15_IndexReadOnly ==
  [][pc # "new" =>
       /\ user_to_computers' = user_to_computers
       /\ DOMAIN user_to_computers' = DOMAIN user_to_computers
       /\ computer_to_users' = computer_to_users
       /\ DOMAIN computer_to_users' = DOMAIN computer_to_users
       /\ computer_activities' = computer_activities
       /\ DOMAIN computer_activities' = DOMAIN computer_activities]_vars

\* C15 witness: a returned first call whose seed has no key in UserToComputers,
\* and which was looked up; the key is still absent.
C15_Witness ==
  /\ FirstCallReturned
  /\ user_to_computers # EmptyDict
  /\ Seed \notin DOMAIN user_to_computers
  /\ Count(event_log, {ProcessingLine(Seed)}) = 1

\* a second witness of C15: a visited computer without access rows, whose
\* absent key was looked up in ComputerToUsers and ComputerActivities
C15_WitnessComputer ==
  /\ FirstCallReturned
  /\ computer_to_users # EmptyDict
  /\ \E c \in visited_computers :
       c \notin DOMAIN computer_to_users \cup DOMAIN computer_activities

\* the access logs with every choice of activity_type values, all else equal
Retypings(rows) ==
  {[i \in 1..Len(rows) |-> [rows[i] EXCEPT !.activity_type = ts[i]]] :
     ts \in [1..Len(rows) -> ActivityTypes]}

\* the 'Processing user' lines of a log, in order
ProcessingLinesIn(log) == SelectSeq(log, LAMBDA l : l \in ProcessingLines)

\* two logs equal line by line, except that an activity line may differ from
\* the activity line at the same place in its activity_type
SameUpToActivityType(log1, log2) ==
  /\ Len(log1) = Len(log2)
  /\ \A i \in 1..Len(log1) :
       \/ log1[i] = log2[i]
       \/ \E u \in Users, t1, t2 \in ActivityTypes :
            log1[i] = ActivityLine(t1, u) /\ log2[i] = ActivityLine(t2, u)

\* C16: the returned first call has the same affected users, the same affected
\* computers and the same processing order as a fresh run with the same seed
\* on logs that differ only in activity_type values, and the two event logs
\* differ only in the activity_type of activity lines; and the queue grows
\* only at the start of a call (by the seed) and while iterating
\* ComputerToUsers (by the user at the current position).
C16_ActivitiesInformationalOnly ==
  /\ [](FirstCallReturned =>
          \A retyped \in Retypings(access_logs) :
            LET other == analyze_compromise(BuildIndex(activity_logs, retyped), FreshEngine, Seed)
            IN /\ other.affected_users = affected_users
               /\ other.affected_computers = affected_computers
               /\ ProcessingLinesIn(other.event_log) = ProcessingLinesIn(event_log)
               /\ SameUpToActivityType(other.event_log, event_log))
  /\ [][Len(queue') > Len(queue) =>
          \/ pc = "ready" /\ queue' = <<calls'[Len(calls')]>>
          \/ /\ pc = "for_user"
             /\ queue' = Append(queue, computer_to_users[computer][user_pos])]_vars

\* C16 witness: a returned first call that logged two activity lines of
\* different types on one computer and affected both users.
C16_Witness ==
  /\ FirstCallReturned
  /\ \E c \in visited_computers :
       /\ Len(AccessRowsOf(c)) = 2
       /\ AccessRowsOf(c)[1].activity_type # AccessRowsOf(c)[2].activity_type
       /\ AccessRowsOf(c)[1].affected_user_id # AccessRowsOf(c)[2].affected_user_id
       /\ {AccessRowsOf(c)[1].affected_user_id, AccessRowsOf(c)[2].affected_user_id}
            \subseteq affected_users \ {Seed}

\* rows with a copy of row i inserted so that it becomes row j (j > i)
Duplicated(rows, i, j) == SubSeq(rows, 1, j - 1) \o <<rows[i]>> \o SubSeq(rows, j, Len(rows))

\* a log without its line k
WithoutLine(log, k) == SubSeq(log, 1, k - 1) \o SubSeq(log, k + 1, Len(log))

\* C17: take the returned first call and repeat any activity row or any access
\* row at any later position: a fresh run with the same seed gives the same
\* affected users and computers. A repeated activity row leaves the trace
\* unchanged; a repeated access row of a visited computer adds exactly one
\* line, an activity line equal to one already in the trace, and a repeated
\* access row of any other computer adds nothing.
C17_RepeatedRowsKeepMembership ==
  FirstCallReturned =>
    /\ \A i \in 1..Len(activity_logs) : \A j \in (i + 1)..(Len(activity_logs) + 1) :
         LET other == analyze_compromise(
                        BuildIndex(Duplicated(activity_logs, i, j), access_logs),
                        FreshEngine, Seed)
         IN /\ other.affected_users = affected_users
            /\ other.affected_computers = affected_computers
            /\ other.event_log = event_log
    /\ \A i \in 1..Len(access_logs) : \A j \in (i + 1)..(Len(access_logs) + 1) :
         LET other == analyze_compromise(
                        BuildIndex(activity_logs, Duplicated(access_logs, i, j)),
                        FreshEngine, Seed)
         IN /\ other.affected_users = affected_users
            /\ other.affected_computers = affected_computers
            /\ IF access_logs[i].computer_id \in visited_computers
               THEN \E k \in 1..Len(other.event_log) :
                      /\ other.event_log[k] \in ActivityLines
                      /\ other.event_log[k] \in Range(event_log)
                      /\ WithoutLine(other.event_log, k) = event_log
               ELSE other.event_log = event_log

\* C17 witness: a returned first call that visited a computer through an
\* activity row and affected a user through an access row, either of which
\* can be repeated.
C17_Witness ==
  /\ FirstCallReturned
  /\ Len(activity_logs) = MaxActivityRows
  /\ Len(access_logs) = MaxAccessRows
  /\ \E i \in 1..Len(access_logs) :
       /\ access_logs[i].computer_id \in visited_computers
       /\ access_logs[i].affected_user_id # Seed
  /\ Cardinality(visited_computers) = 2

\* the first n lines of a log written out one after the other, a newline
\* between two lines
RECURSIVE TextOfFirst(_, _)
TextOfFirst(log, n) ==
  IF n = 0 THEN ""
  ELSE IF n = 1 THEN log[1]
  ELSE TextOfFirst(log, n - 1) \o "\n" \o log[n]

\* a count as the summary shows it
Decimal(n) == CASE n = 0 -> "0" [] n = 1 -> "1" [] n = 2 -> "2" [] n = 3 -> "3"
                [] n = 4 -> "4" [] n = 5 -> "5" [] OTHER -> "?"

\* the summary that reports the two counts
SummaryOf(users, computers) ==
  "Metric,Value\nTotal Affected Users," \o Decimal(users)
  \o "\nTotal Affected Computers," \o Decimal(computers) \o "\n"

\* C18: a step that writes the output files changes neither the log, nor a
\* set, nor a mapping, nor anything else of the engine; the log file it
\* leaves is the event log's lines in stored order and the summary reports
\* |affected_users| and |affected_computers| as they stand; and however often
\* and whenever save_outputs was called, a first call returns what a run on a
\* fresh engine returns and a second call what a run started from the first
\* call's engine returns.
C18_SinkMutatesNothing ==
  /\ [][files' # files =>
          /\ UNCHANGED <<logs, index, sets, event_log, locals, calls, pc>>
          /\ investigation_log_txt' = TextOfFirst(event_log, Len(event_log))
          /\ analysis_summary_csv' =
               SummaryOf(Cardinality(affected_users), Cardinality(affected_computers))]_vars
  /\ [](FirstCallReturned => EngineState = FirstRun)
  /\ [](SecondCallReturned =>
          EngineState = analyze_compromise(BuildIndex(activity_logs, access_logs),
                                           FirstRun, calls[2]))

\* C18 witness: the files were written after a first call that affected three
\* users, and a second call has returned since.
C18_Witness ==
  /\ SecondCallReturned
  /\ Cardinality(FirstRun.affected_users) = 3
  /\ investigation_log_txt = TextOfFirst(FirstRun.event_log, Len(FirstRun.event_log))
  /\ analysis_summary_csv =
       SummaryOf(3, Cardinality(FirstRun.affected_computers))
  /\ event_log # FirstRun.event_log

\* the computers UserToComputers lists for the users of S
ComputersOf(S) == {c \in Computers : \E u \in S : UserHasComputer(u, c)}

\* the engine after a fresh run with seed s alone
FreshRun(s) == analyze_compromise(BuildIndex(activity_logs, access_logs), FreshEngine, s)

\* C19: after analyze(s1) then analyze(s2) on one engine, affected_users is
\* Reach(s1) \cup Reach(s2) and affected_computers is the computers of these
\* users; both are the union of what two independent fresh runs give, and what
\* the calls made in the other order give; and when s2 = s1 the second call
\* changes neither set and appends exactly the start line and the processing
\* line.
C19_AccumulationLosesNothing ==
  SecondCallReturned =>
    LET s1 == calls[1]
        s2 == calls[2]
        ix == BuildIndex(activity_logs, access_logs)
        swapped == analyze_compromise(ix, FreshRun(s2), s1)
    IN /\ affected_users = Reach(s1) \cup Reach(s2)
       /\ affected_computers = ComputersOf(Reach(s1) \cup Reach(s2))
       /\ affected_users = FreshRun(s1).affected_users \cup FreshRun(s2).affected_users
       /\ affected_computers = FreshRun(s1).affected_computers \cup FreshRun(s2).affected_computers
       /\ affected_users = swapped.affected_users
       /\ affected_computers = swapped.affected_computers
       /\ s1 = s2 =>
            /\ affected_users = FreshRun(s1).affected_users
            /\ affected_computers = FreshRun(s1).affected_computers
            /\ event_log = FreshRun(s1).event_log \o <<StartLine(s1), ProcessingLine(s1)>>

\* C19 witness: a second call, seeded with a user the first call had not
\* reached, skipped a computer the first call had visited, and that computer's
\* users are in the result all the same.
C19_Witness ==
  /\ SecondCallReturned
  /\ calls[2] \notin Reach(calls[1])
  /\ \E c \in ComputersOf({calls[1]}) \cap ComputersOf({calls[2]}) :
       \E u \in Users \ {calls[1], calls[2]} : ComputerHasUser(c, u) /\ u \in affected_users

\* a second witness of C19: the same seed analysed twice, on an index where
\* it reaches other users
C19_WitnessSameSeed ==
  /\ SecondCallReturned
  /\ calls[1] = calls[2]
  /\ Cardinality(affected_users) >= 2

\* C20: at every point of a first call every queued user is in visited_users
\* and the queue holds no user twice; no user has two 'Processing' lines, no
\* user with a 'Processing' line is in the queue, and a user is appended to
\* the queue, at its tail and by the steps of the first call (its start
\* included), only if not visited before; at return every affected user has
\* exactly one 'Processing' line, so their number is |affected_users|.
C20_QueueDiscipline ==
  /\ [](FirstCall =>
          /\ Range(queue) \subseteq visited_users
          /\ \A i, j \in 1..Len(queue) : i # j => queue[i] # queue[j]
          /\ \A u \in Users : Count(event_log, {ProcessingLine(u)}) <= 1
          /\ \A u \in Range(queue) : Count(event_log, {ProcessingLine(u)}) = 0
          /\ pc = "ready" =>
               /\ Count(event_log, ProcessingLines) = Cardinality(affected_users)
               /\ \A u \in affected_users : Count(event_log, {ProcessingLine(u)}) = 1)
  /\ [][(Len(calls') = 1 /\ Len(queue') > Len(queue)) =>
          /\ Len(queue') = Len(queue) + 1
          /\ SubSeq(queue', 1, Len(queue)) = queue
          /\ queue'[Len(queue')] \notin visited_users]_vars

\* C20 witness: two users wait in the queue of a first call.
C20_Witness ==
  /\ FirstCall
  /\ Len(queue) = 2
  /\ pc = "while"
====
